---------------------------- MODULE Spec2Model ----------------------------
(* traceroute_history: change-gated storage of traceroute outputs, the     *)
(* retention sweep, and the scheduler's jobs (src/traceroute_history.py).  *)
EXTENDS Integers, Sequences, FiniteSets, TLC

(* ------------------------------ bounds -------------------------------- *)
\* Largest value of the wall clock (datetime.now()).
MaxTime == 2
\* Number of rows the Traceroute table ever receives (ids 1..MaxId).
MaxId == 2
\* Largest `keep` passed to delete_old_traceroutes.
MaxKeep == 1
\* Largest `days` passed to delete_old_traceroutes.
MaxDays == 1
\* Largest number of hops of a raw trace handed to diff_traceroutes alone.
MaxHops == 2
\* Number of rows the table receives, and largest `keep`, in the runs on
\* the log of one target.
MaxLogId == 3
MaxLogKeep == 2

(* --------------------------- configuration ---------------------------- *)
\* name of each configured host (config[host]['name'])
Names == {"a", "b"}
\* config[host]['address']
Address(name) == IF name = "a" THEN "10.0.0.1" ELSE "10.0.0.2"

(* ----------------------- raw traces and parsing ----------------------- *)
\* Python None, as a probe's ip when the hop did not answer
NoneIp == "None"
\* A raw traceroute output is a str; kind distinguishes None, '' and a
\* text made of a header and hop lines.  A hop line is the sequence of the
\* addresses printed on it, "*" for a probe that timed out.
None == [kind |-> "None", lines |-> <<>>]
EmptyStr == [kind |-> "empty", lines |-> <<>>]
RawText(lines) == [kind |-> "text", lines |-> lines]

\* trparse.loads: one Hop per hop line, one Probe per printed reply; a
\* timed-out reply is a Probe whose ip is None.
loads(tr) ==
    [hops |-> [i \in 1..Len(tr.lines) |->
        [probes |-> [j \in 1..Len(tr.lines[i]) |->
            [ip |-> IF tr.lines[i][j] = "*" THEN NoneIp ELSE tr.lines[i][j]]]]]]

Max(a, b) == IF a >= b THEN a ELSE b
Min(a, b) == IF a <= b THEN a ELSE b

\* hops[index].probes[0] raises IndexError (0-based index)
RaisesIndexError(tr_object, index) ==
    \/ index + 1 > Len(tr_object.hops)
    \/ Len(tr_object.hops[index + 1].probes) = 0

\* the body of the for loop of diff_traceroutes: TRUE when index is appended
HopDiffers(tr1_object, tr2_object, index) ==
    IF RaisesIndexError(tr1_object, index) \/ RaisesIndexError(tr2_object, index)
    THEN TRUE
    ELSE ~(tr1_object.hops[index + 1].probes[1].ip
             = tr2_object.hops[index + 1].probes[1].ip)

diff_traceroutes(tr1, tr2) ==
    LET tr1_object == loads(tr1)
        tr2_object == loads(tr2)
        max_hops == Max(Len(tr1_object.hops), Len(tr2_object.hops))
    IN  {index \in 0..(max_hops - 1) : HopDiffers(tr1_object, tr2_object, index)}

(* --------------------------- probe collaborator ----------------------- *)
\* Outputs the traceroute binary produces in the stateful specifications:
\* a header with no hop, one answered hop, a hop line without any reply.
ProbeTexts ==
    { RawText(<<>>),
      RawText(<< <<"h1">> >>),
      RawText(<< <<>> >>) }

\* (exit_code, output) of command_runner
ProbeResults ==
    [exit_code : {0}, output : ProbeTexts \cup {EmptyStr}]
      \cup {[exit_code |-> 1, output |-> RawText(<< <<"h1">> >>)]}

\* Python truthiness of an Optional[str]
Truthy(s) == s.kind = "text"

get_traceroute(address, res) ==
    IF address /= ""
    THEN IF res.exit_code = 0 THEN res.output ELSE None
    ELSE None

(* ------------------------------ storage ------------------------------- *)
VARIABLES
    targets,       \* rows of table Target
    traceroutes,   \* rows of table Traceroute
    next_id,       \* next Traceroute.id
    now,           \* datetime.now()
    last,          \* the last handler call: its arguments and what it found
    conf,          \* delete_history_days and minimum_keep read by execute
    jobstore,      \* jobs the scheduler holds
    running,       \* job occurrences executing in the scheduler's thread pool
    config,        \* the configuration file and the command line of the process
    proc,          \* the main thread: where it is in main/execute, and the scheduler
    difftest       \* a pair of raw traces and the result of diff_traceroutes on it

vars == <<targets, traceroutes, next_id, now, last, conf, jobstore, running,
          config, proc, difftest>>
sched_vars == <<conf, jobstore, running>>
main_vars == <<config, proc, difftest>>

\* a row of table Traceroute
Traceroute(id, name, text, date) ==
    [id |-> id, target |-> name, traceroute |-> text, creation_date |-> date]

\* session.query(Target).filter(Target.name == name).one()
target_exists(tgts, name) == \E t \in tgts : t.name = name

create_target(tgts, name, address) ==
    tgts \cup {[name |-> name, address |-> address]}

insert_traceroute(rows, id, name, traceroute_output, date) ==
    rows \cup {Traceroute(id, name, traceroute_output, date)}

\* rows of one target
RowsOf(rows, name) == {r \in rows : r.target = name}

\* query(Traceroute).filter(target).order_by(Traceroute.id.desc()).first()
HasLast(rows, name) == RowsOf(rows, name) /= {}
LastTrace(rows, name) ==
    CHOOSE r \in RowsOf(rows, name) : \A s \in RowsOf(rows, name) : s.id <= r.id


(* --------------------------- Update Policy ---------------------------- *)
\* a variant that stores every probe output
StoreAlways(has_last, last_text, current_trace) == TRUE

\* a variant that asks the diff even when no row is stored yet
StoreOnDiffOnly(has_last, last_text, current_trace) ==
    diff_traceroutes(IF has_last THEN last_text ELSE RawText(<<>>), current_trace) /= {}

\* lines 233-241: with a probe output in hand, whether it is inserted,
\* given the result of the query for the most recent row
StoreDecision(has_last, last_text, current_trace) ==
    IF has_last
    THEN diff_traceroutes(last_text, current_trace) /= {}
    ELSE TRUE

\* lines 229-243 on the storage `rows`
ShouldStore(rows, name, current_trace) ==
    /\ Truthy(current_trace)
    /\ StoreDecision(HasLast(rows, name),
                     IF HasLast(rows, name)
                     THEN LastTrace(rows, name).traceroute ELSE None,
                     current_trace)

\* lines 221-228: the Target table after the lookup and the creation
TargetsAfterLookup(tgts, name, address) ==
    IF target_exists(tgts, name) THEN tgts ELSE create_target(tgts, name, address)

\* target.address of the row found or created
AddressOf(tgts, name) == (CHOOSE t \in tgts : t.name = name).address

\* The whole of update_traceroute_database(name, address, groups), the
\* probe collaborator answering res, on a table that takes ids up to max_id.
update_traceroute_database_upto(name, address, res, max_id) ==
    LET tgts == TargetsAfterLookup(targets, name, address)
        current_trace == get_traceroute(AddressOf(tgts, name), res)
        store == ShouldStore(traceroutes, name, current_trace)
    IN  /\ store => next_id <= max_id
        /\ targets' = tgts
        /\ traceroutes' = IF store
                          THEN insert_traceroute(traceroutes, next_id, name, current_trace, now)
                          ELSE traceroutes
        /\ next_id' = IF store THEN next_id + 1 ELSE next_id

update_traceroute_database(name, address, res) ==
    update_traceroute_database_upto(name, address, res, MaxId)

(* -------------------------- Retention Policy -------------------------- *)
\* a variant without the creation_date filter
AllIds(rows, name, t, days) == {r.id : r \in RowsOf(rows, name)}

\* filter of the subquery, lines 323-325: ids of the target's rows older
\* than datetime.now() - timedelta(days)
OldIds(rows, name, t, days) ==
    {r.id : r \in {x \in RowsOf(rows, name) : x.creation_date < t - days}}

\* a variant whose limit is one too large
OrderByIdDescLimitPlusOne(ids, n) ==
    {i \in ids : Cardinality({j \in ids : j > i}) <= n}

\* .order_by(Traceroute.id.desc()).limit(n)
OrderByIdDescLimit(ids, n) ==
    {i \in ids : Cardinality({j \in ids : j > i}) < n}

\* a variant without the limit
IdsToDeleteNoLimit(rows, name, t, days, num_records_to_delete) ==
    OldIds(rows, name, t, days)

\* ids the delete statement of lines 323-327 removes
IdsToDelete(rows, name, t, days, num_records_to_delete) ==
    OrderByIdDescLimit(OldIds(rows, name, t, days), num_records_to_delete)

\* num_records of line 319
CountOf(rows, name) == Cardinality(RowsOf(rows, name))

\* table Traceroute after delete_old_traceroutes(name, days, keep) at time t
RowsAfterDelete(tgts, rows, name, t, days, keep) ==
    IF ~target_exists(tgts, name)
    THEN rows
    ELSE LET num_records == CountOf(rows, name)
         IN  IF num_records > keep
             THEN {r \in rows :
                     r.id \notin IdsToDelete(rows, name, t, days, num_records - keep)}
             ELSE rows

delete_old_traceroutes(name, days, keep) ==
    /\ traceroutes' = RowsAfterDelete(targets, traceroutes, name, now, days, keep)
    /\ UNCHANGED <<targets, next_id>>

(* ------------------- handlers called one at a time -------------------- *)
\* no probe was run
NoProbe == [exit_code |-> 1, output |-> EmptyStr]

NoCall == [op |-> "none", name |-> "a", res |-> NoProbe, days |-> 0, keep |-> 0,
           count_before |-> 0, known_before |-> FALSE]

\* a call of a handler: its arguments, the number of rows the target had
\* when it was called, and whether the target was in table Target
Call(op, name, res, days, keep) ==
    [op |-> op, name |-> name, res |-> res, days |-> days, keep |-> keep,
     count_before |-> Cardinality({r \in traceroutes : r.target = name}),
     known_before |-> \E t \in targets : t.name = name]

\* interval = 3600 of lines 396-400
DefaultInterval == 3600
\* minimum_keep = 100 of lines 411-415
DefaultMinimumKeep == 100

\* the options of execute before execute has read them
NoConf == [interval |-> DefaultInterval, delete_history_days |-> 0, minimum_keep |-> 0]

\* the handlers are called directly: no process, no configuration file and
\* no pair of traces under comparison
NoConfig == [daemon |-> FALSE]
NoProc == [pc |-> "none"]
NoDiff == [pc |-> "none"]

Init ==
    /\ targets = {}
    /\ traceroutes = {}
    /\ next_id = 1
    /\ now = 0
    /\ last = NoCall
    /\ conf = NoConf
    /\ jobstore = {}
    /\ running = {}
    /\ config = NoConfig
    /\ proc = NoProc
    /\ difftest = NoDiff

Update ==
    \E name \in Names, res \in ProbeResults :
        /\ update_traceroute_database(name, Address(name), res)
        /\ last' = Call("update", name, res, 0, 0)
        /\ UNCHANGED <<now, sched_vars, main_vars>>

\* The storage statements of update_traceroute_database, in the order the
\* function issues them; any of them can raise sqlalchemy.exc.OperationalError.
FaultPoints == {"lookup", "create", "query_last", "insert"}

\* update_traceroute_database(name, address, groups) when the statement at
\* `fault` raises OperationalError.  create_target and insert_traceroute
\* open their own db_scoped_session, which commits when their `with` block
\* ends (lines 179-182, 202-204); the rollback of line 164 undoes only what
\* the raising statement's scope had pending.  The except clause of line
\* 244 logs the error and the function returns.
update_traceroute_database_fails(name, address, res, fault) ==
    LET tgts == TargetsAfterLookup(targets, name, address)
        current_trace == get_traceroute(AddressOf(tgts, name), res)
    IN  /\ fault = "create" => ~target_exists(targets, name)
        /\ fault = "query_last" => Truthy(current_trace)
        /\ fault = "insert" => ShouldStore(traceroutes, name, current_trace)
        /\ targets' = IF fault \in {"lookup", "create"} THEN targets ELSE tgts
        /\ UNCHANGED <<traceroutes, next_id>>

\* a statement before line 229 raises before the probe is run; of a failed
\* call `last` keeps the name and what the call found
UpdateFails ==
    \E name \in Names, res \in ProbeResults \cup {NoProbe}, fault \in FaultPoints :
        /\ res = NoProbe <=> fault \in {"lookup", "create"}
        /\ update_traceroute_database_fails(name, Address(name), res, fault)
        /\ last' = Call("update_failed", name, NoProbe, 0, 0)
        /\ UNCHANGED <<now, sched_vars, main_vars>>

Prune ==
    \E name \in Names, days \in 0..MaxDays, keep \in 0..MaxKeep :
        /\ delete_old_traceroutes(name, days, keep)
        /\ last' = Call("prune", name, NoProbe, days, keep)
        /\ UNCHANGED <<now, sched_vars, main_vars>>

\* the wall clock advances between calls
Tick ==
    /\ now < MaxTime
    /\ now' = now + 1
    /\ UNCHANGED <<targets, traceroutes, next_id, last, sched_vars, main_vars>>

Next == Update \/ UpdateFails \/ Prune \/ Tick

Spec == Init /\ [][Next]_vars

(* ------------------------ the log of one target ----------------------- *)
\* the target of the runs on one log
LogName == "a"

LogUpdate ==
    \E res \in ProbeResults :
        /\ update_traceroute_database_upto(LogName, Address(LogName), res, MaxLogId)
        /\ last' = Call("update", LogName, res, 0, 0)
        /\ UNCHANGED <<now, sched_vars, main_vars>>

LogPrune ==
    \E days \in 0..MaxDays, keep \in 0..MaxLogKeep :
        /\ delete_old_traceroutes(LogName, days, keep)
        /\ last' = Call("prune", LogName, NoProbe, days, keep)
        /\ UNCHANGED <<now, sched_vars, main_vars>>

LogNext == LogUpdate \/ LogPrune \/ Tick

LogSpec == Init /\ [][LogNext]_vars

(* ------------------------------ scheduler ----------------------------- *)
\* [HOST_*] sections of the configuration in the scheduler runs
SchedHosts == {"a"}

\* a variant of add_job that lets two occurrences of a job run at once
add_job_two_instances(jobs, func, trigger, seconds, name, id) ==
    jobs \cup {[id |-> id, func |-> func, trigger |-> trigger, seconds |-> seconds,
                name |-> name, max_instances |-> 2]}

\* scheduler.add_job(func, trigger, [], kwargs, name=id, id=id) on a job
\* store without a job of that id: no max_instances is passed, so the job
\* runs one occurrence at a time.  `seconds` is the period of an interval
\* trigger, 0 for the date trigger (trigger None: run once, now).
add_job(jobs, func, trigger, seconds, name, id) ==
    jobs \cup {[id |-> id, func |-> func, trigger |-> trigger, seconds |-> seconds,
                name |-> name, max_instances |-> 1]}

\* add_job raises ConflictingIdError, a KeyError, when the running
\* scheduler's job store already holds a job of that id
ConflictingId(jobs, id) == \E job \in jobs : job.id = id

\* one add_job call of the loop body: skipped once an earlier call of the
\* same pass has raised
TryAddJob(st, func, trigger, seconds, name, id) ==
    IF st.raised
    THEN st
    ELSE IF ConflictingId(st.jobs, id)
         THEN [st EXCEPT !.raised = TRUE]
         ELSE [st EXCEPT !.jobs = add_job(st.jobs, func, trigger, seconds, name, id)]

\* hours=1 of the recurring prune job, in seconds
HousekeepingSeconds == 3600

\* lines 432-442, the add_job calls of one pass of the loop of execute: the
\* job store afterwards and whether a call raised KeyError
LoopBody(jobs, target_name, interval, delete_history_days) ==
    LET s0 == [jobs |-> jobs, raised |-> FALSE]
        s1 == TryAddJob(s0, "update", "date", 0, target_name, "startup-" \o target_name)
        s2 == TryAddJob(s1, "update", "interval", interval, target_name, target_name)
        s3 == TryAddJob(s2, "prune", "date", 0, target_name,
                        "startup-housekeeping-" \o target_name)
        s4 == TryAddJob(s3, "prune", "interval", HousekeepingSeconds, target_name,
                        "housekeeping-" \o target_name)
    IN  IF delete_history_days /= 0 /\ ~s2.raised THEN s4 ELSE s2

\* the jobs one pass of the loop of execute registers for a host
JobsOfHost(jobs, target_name, interval, delete_history_days) ==
    LoopBody(jobs, target_name, interval, delete_history_days).jobs

\* the job store after the loop over hosts
RECURSIVE RegisterAll(_, _, _, _)
RegisterAll(jobs, hosts, interval, delete_history_days) ==
    IF hosts = {}
    THEN jobs
    ELSE LET host == CHOOSE h \in hosts : TRUE
         IN  RegisterAll(JobsOfHost(jobs, host, interval, delete_history_days),
                         hosts \ {host}, interval, delete_history_days)

\* an occurrence of a job in the thread pool, at the start of its function
Occurrence(job, n) ==
    [job |-> job.id, n |-> n, func |-> job.func, name |-> job.name, pc |-> "start",
     current_trace |-> None, last_id |-> 0, last_text |-> None, num_records |-> 0]

OccurrencesOf(id) == {o \in running : o.job = id}

\* the state after execute has started the scheduler and registered the jobs
SchedInit ==
    /\ targets = {}
    /\ traceroutes = {}
    /\ next_id = 1
    /\ now = 0
    /\ last = NoCall
    /\ conf \in [interval : {DefaultInterval}, delete_history_days : 0..MaxDays,
                minimum_keep : 0..MaxKeep]
    /\ jobstore = RegisterAll({}, SchedHosts, conf.interval, conf.delete_history_days)
    /\ running = {}
    /\ config = NoConfig
    /\ proc = NoProc
    /\ difftest = NoDiff

\* A trigger of a job comes due and the job has a free occurrence slot: the
\* executor starts it; a job with a date trigger leaves the job store.
Dispatch ==
    \E job \in jobstore :
        /\ Cardinality(OccurrencesOf(job.id)) < job.max_instances
        /\ LET n == CHOOSE k \in 1..job.max_instances :
                       \A o \in OccurrencesOf(job.id) : o.n /= k
           IN  running' = running \cup {Occurrence(job, n)}
        /\ jobstore' = IF job.trigger = "date" THEN jobstore \ {job} ELSE jobstore
        /\ UNCHANGED <<targets, traceroutes, next_id, now, last, conf, main_vars>>

\* A trigger of a job comes due while the job runs its maximum number of
\* occurrences: the run is skipped and nothing is kept of it.
SkipBusy ==
    \E job \in jobstore :
        /\ Cardinality(OccurrencesOf(job.id)) >= job.max_instances
        /\ UNCHANGED vars

\* the occurrence o goes on as o2
Goes(o, o2) == running' = (running \ {o}) \cup {o2}
\* the occurrence o returns or raises
Ends(o) == running' = running \ {o}

\* what the probe collaborator answers in the scheduler runs
SchedProbeResults ==
    {[exit_code |-> 0, output |-> RawText(<<>>)],
     [exit_code |-> 0, output |-> RawText(<< <<"h1">> >>)],
     [exit_code |-> 1, output |-> EmptyStr]}

\* lines 229-232 of an update job: the probe and, with an output, the query
\* for the most recent row; without an output the job returns
ProbeAndReadLast(o, res) ==
    LET current_trace == get_traceroute(AddressOf(targets', o.name), res)
    IN  IF ~Truthy(current_trace)
        THEN Ends(o)
        ELSE Goes(o, IF HasLast(traceroutes, o.name)
                     THEN [o EXCEPT !.pc = "read",
                                    !.current_trace = current_trace,
                                    !.last_id = LastTrace(traceroutes, o.name).id,
                                    !.last_text = LastTrace(traceroutes, o.name).traceroute]
                     ELSE [o EXCEPT !.pc = "read", !.current_trace = current_trace])

\* update job, lines 221-232: the lookup of the Target row; when it is
\* found, the probe and the query for the most recent row
UpdateLookup ==
    \E o \in running, res \in SchedProbeResults :
        /\ o.func = "update" /\ o.pc = "start"
        /\ UNCHANGED targets
        /\ IF target_exists(targets, o.name)
           THEN ProbeAndReadLast(o, res)
           ELSE Goes(o, [o EXCEPT !.pc = "creating"])
        /\ UNCHANGED <<traceroutes, next_id, now, last, conf, jobstore, main_vars>>

\* update job, lines 225-228: the creation of the missing Target row; the
\* insert of a name that was created meanwhile raises
UpdateCreate ==
    \E o \in running :
        /\ o.func = "update" /\ o.pc = "creating"
        /\ IF target_exists(targets, o.name)
           THEN Ends(o) /\ UNCHANGED targets
           ELSE /\ targets' = create_target(targets, o.name, Address(o.name))
                /\ Goes(o, [o EXCEPT !.pc = "created"])
        /\ UNCHANGED <<traceroutes, next_id, now, last, conf, jobstore, main_vars>>

\* update job, lines 229-232 after a creation
UpdateProbe ==
    \E o \in running, res \in SchedProbeResults :
        /\ o.func = "update" /\ o.pc = "created"
        /\ UNCHANGED targets
        /\ ProbeAndReadLast(o, res)
        /\ UNCHANGED <<traceroutes, next_id, now, last, conf, jobstore, main_vars>>

\* update job, lines 233-241: the comparison and the insert
UpdateStore ==
    \E o \in running :
        /\ o.func = "update" /\ o.pc = "read"
        /\ LET store == StoreDecision(o.last_id /= 0, o.last_text, o.current_trace)
           IN  /\ store => next_id <= MaxId
               /\ traceroutes' = IF store
                                 THEN insert_traceroute(traceroutes, next_id, o.name,
                                                        o.current_trace, now)
                                 ELSE traceroutes
               /\ next_id' = IF store THEN next_id + 1 ELSE next_id
        /\ Ends(o)
        /\ UNCHANGED <<targets, now, last, conf, jobstore, main_vars>>

\* prune job, lines 314-320: the lookup of the Target row and the count
PruneCount ==
    \E o \in running :
        /\ o.func = "prune" /\ o.pc = "start"
        /\ IF target_exists(targets, o.name)
              /\ CountOf(traceroutes, o.name) > conf.minimum_keep
           THEN Goes(o, [o EXCEPT !.pc = "counted",
                                  !.num_records = CountOf(traceroutes, o.name)])
           ELSE Ends(o)
        /\ UNCHANGED <<targets, traceroutes, next_id, now, last, conf, jobstore, main_vars>>

\* prune job, lines 321-328: the delete statement
PruneDelete ==
    \E o \in running :
        /\ o.func = "prune" /\ o.pc = "counted"
        /\ traceroutes' =
              {r \in traceroutes :
                  r.id \notin IdsToDelete(traceroutes, o.name, now, conf.delete_history_days,
                                          o.num_records - conf.minimum_keep)}
        /\ Ends(o)
        /\ UNCHANGED <<targets, next_id, now, last, conf, jobstore, main_vars>>

\* the wall clock advances while the scheduler runs
SchedTick ==
    /\ now < MaxTime
    /\ now' = now + 1
    /\ UNCHANGED <<targets, traceroutes, next_id, last, conf, jobstore, running, main_vars>>

SchedNext ==
    \/ Dispatch
    \/ SkipBusy
    \/ UpdateLookup
    \/ UpdateCreate
    \/ UpdateProbe
    \/ UpdateStore
    \/ PruneCount
    \/ PruneDelete
    \/ SchedTick

SchedSpec == SchedInit /\ [][SchedNext]_vars

(* ---------------------- the process: main, execute --------------------- *)
\* An option of section [TRACEROUTE_HISTORY] as the configuration file gives
\* it: absent, a text int() rejects (such as 'abc'), or an integer literal.
Missing == [kind |-> "missing", value |-> 0]
Bogus == [kind |-> "bogus", value |-> 0]
IntOpt(n) == [kind |-> "int", value |-> n]

\* try: int(config['TRACEROUTE_HISTORY'][key]) except KeyError / except
\* TypeError (lines 394-415).  The lookup of an absent key raises KeyError,
\* which is caught; int() of a non-integer text raises ValueError, which no
\* clause catches.  A value read from a file is a str, so TypeError is never
\* raised.
ParseOption(opt, default) ==
    IF opt.kind = "int"
    THEN [raised |-> "none", value |-> opt.value]
    ELSE IF opt.kind = "missing"
         THEN [raised |-> "none", value |-> default]
         ELSE [raised |-> "ValueError", value |-> default]

\* delete_history_days = None of lines 405-408: None and 0 are both false at
\* line 438 and neither reaches delete_old_traceroutes
NoRetention == 0

\* a [HOST_*] section: its name option, and whether it has all of name,
\* address and groups
Section(name, complete) == [kind |-> "section", name |-> name, complete |-> complete]
\* an entry {'host': ..., 'name': ...} of the list read_smokeping_config returns
SmokepingHost(n) == [kind |-> "smokeping", name |-> "", complete |-> FALSE, n |-> n]

\* smokeping_config_path of section [SMOKEPING_SOURCE] and the file it names.
\* path: "no_section" when the section or the option is absent (line 380
\* sets None), "empty" for '', "not_a_file", or "file"; lines: for each line
\* of the file, whether it matches host_regex, title_regex or neither.
Smokeping(path, lines) == [path |-> path, lines |-> lines]

IsHostLine(l) == l = "host"
IsTitleLine(l) == l = "title"

\* a variant that pairs hosts and titles as far as they go (zip)
read_smokeping_config_partial(src) ==
    IF src.path = "no_section"
    THEN [raised |-> "TypeError", hosts |-> <<>>]
    ELSE IF src.path \in {"empty", "not_a_file"}
         THEN [raised |-> "none", hosts |-> <<>>]
         ELSE LET hosts == SelectSeq(src.lines, IsHostLine)
                  names == SelectSeq(src.lines, IsTitleLine)
              IN  [raised |-> "none",
                   hosts |-> [n \in 1..Min(Len(hosts), Len(names)) |-> SmokepingHost(n)]]

\* read_smokeping_config(config_file): the list it returns, <<>> standing
\* for both None and [] (line 383 tests the truth value only).
\* os.path.isfile(None) raises TypeError.
read_smokeping_config(src) ==
    IF src.path = "no_section"
    THEN [raised |-> "TypeError", hosts |-> <<>>]
    ELSE IF src.path \in {"empty", "not_a_file"}
         THEN [raised |-> "none", hosts |-> <<>>]
         ELSE LET hosts == SelectSeq(src.lines, IsHostLine)
                  names == SelectSeq(src.lines, IsTitleLine)
              IN  IF Len(hosts) /= Len(names)
                  THEN [raised |-> "none", hosts |-> <<>>]
                  ELSE [raised |-> "none",
                        hosts |-> [n \in 1..Len(hosts) |-> SmokepingHost(n)]]

\* sys.exit(3) of load_database, sys.exit(20) of execute
ExitNoDatabase == 3
ExitNoHosts == 20
\* exit status of the interpreter after an uncaught exception
ExitUncaught == 1

\* configurations the process is started with: a working one, and each of
\* its items changed in turn
HostLists ==
    { <<>>,
      <<Section("a", TRUE)>>,
      <<Section("a", TRUE), Section("b", TRUE)>>,
      <<Section("a", FALSE), Section("b", TRUE)>>,
      <<Section("a", TRUE), Section("housekeeping-a", TRUE)>> }

SmokepingSources ==
    { Smokeping("no_section", <<>>),
      Smokeping("empty", <<>>),
      Smokeping("not_a_file", <<>>),
      Smokeping("file", <<"other">>),
      Smokeping("file", <<"host", "title">>),
      Smokeping("file", <<"host", "title", "host">>),
      Smokeping("file", <<"host", "host", "host", "title", "title">>) }

Databases == {"ok", "sqlite_missing", "unreachable"}

WorkingConfig ==
    [daemon |-> FALSE, db |-> "ok",
     hosts |-> <<Section("a", TRUE), Section("b", TRUE)>>,
     smokeping |-> Smokeping("empty", <<>>),
     interval |-> IntOpt(60), delete_history_days |-> IntOpt(1),
     minimum_keep |-> IntOpt(1)]

Configs ==
    LET once ==
            {[WorkingConfig EXCEPT !.hosts = h] : h \in HostLists}
              \cup {[WorkingConfig EXCEPT !.smokeping = sm] : sm \in SmokepingSources}
              \cup {[WorkingConfig EXCEPT !.db = d] : d \in Databases}
              \cup {[WorkingConfig EXCEPT !.interval = o] : o \in {Missing, Bogus}}
              \cup {[WorkingConfig EXCEPT !.delete_history_days = o] :
                        o \in {Missing, Bogus, IntOpt(0)}}
              \cup {[WorkingConfig EXCEPT !.minimum_keep = o] : o \in {Missing, Bogus}}
    IN  {[c EXCEPT !.daemon = d] : c \in once, d \in BOOLEAN}

\* sys.exit(code), or an exception no clause catches: the interpreter is on
\* its way out
SysExit(p, code) == [p EXCEPT !.pc = "exiting", !.exit_code = code]

\* a variant of shutdown that leaves the scheduler dispatching
shutdown_still_running(p) == [p EXCEPT !.pc = "shutdown"]

\* scheduler.shutdown() (wait=True): the scheduler is stopped at once and
\* the call returns when the jobs in the thread pool have finished
shutdown(p) == [p EXCEPT !.pc = "shutdown", !.sched = "stopped"]

\* main has loaded the configuration and is about to call load_database
ExecInit ==
    /\ targets = {}
    /\ traceroutes = {}
    /\ next_id = 1
    /\ now = 0
    /\ last = NoCall
    /\ conf = NoConf
    /\ jobstore = {}
    /\ running = {}
    /\ config \in Configs
    /\ proc = [pc |-> "load_database", exit_code |-> 0, sched |-> "none",
               hosts |-> <<>>, i |-> 0, added |-> {}]
    /\ difftest = NoDiff

db_vars == <<targets, traceroutes, next_id, now, last>>

\* load_database: a missing sqlite file exits with status 3; a server that
\* cannot be reached raises nothing here or raises OperationalError, which
\* line 511 logs, and main goes on to execute
LoadDatabase ==
    /\ proc.pc = "load_database"
    /\ proc' = IF config.db = "sqlite_missing"
               THEN SysExit(proc, ExitNoDatabase)
               ELSE [proc EXCEPT !.pc = "execute"]
    /\ UNCHANGED <<db_vars, sched_vars, config, difftest>>

\* execute, lines 376-415: the list of hosts, the start of the scheduler
\* and the three options
ExecuteStart ==
    /\ proc.pc = "execute"
    /\ LET smokeping_hosts == read_smokeping_config(config.smokeping)
           hosts == config.hosts \o smokeping_hosts.hosts
           interval == ParseOption(config.interval, DefaultInterval)
           delete_history_days == ParseOption(config.delete_history_days, NoRetention)
           minimum_keep == ParseOption(config.minimum_keep, DefaultMinimumKeep)
       IN  IF smokeping_hosts.raised /= "none"
           THEN proc' = SysExit(proc, ExitUncaught) /\ UNCHANGED conf
           ELSE IF Len(hosts) = 0
           THEN proc' = SysExit(proc, ExitNoHosts) /\ UNCHANGED conf
           ELSE IF \/ interval.raised /= "none"
                   \/ delete_history_days.raised /= "none"
                   \/ minimum_keep.raised /= "none"
           THEN /\ proc' = [SysExit(proc, ExitUncaught) EXCEPT !.sched = "running"]
                /\ UNCHANGED conf
           ELSE /\ proc' = [proc EXCEPT !.pc = "register", !.sched = "running",
                                        !.hosts = hosts, !.i = 1]
                /\ conf' = [interval |-> interval.value,
                            delete_history_days |-> delete_history_days.value,
                            minimum_keep |-> minimum_keep.value]
    /\ UNCHANGED <<db_vars, jobstore, running, config, difftest>>

\* One pass of the loop of lines 417-444.  config[host] raises TypeError
\* for an entry of the smokeping list, which is a dict; a section without
\* name, address or groups raises KeyError, as does add_job on an id the job
\* store holds, and line 443 catches KeyError only.
RegisterHost ==
    /\ proc.pc = "register"
    /\ LET host == proc.hosts[proc.i]
           body == LoopBody(jobstore, host.name, conf.interval, conf.delete_history_days)
           next == [proc EXCEPT !.i = proc.i + 1,
                                !.pc = IF proc.i = Len(proc.hosts)
                                       THEN "sleep" ELSE "register"]
       IN  IF host.kind = "smokeping"
           THEN proc' = SysExit(proc, ExitUncaught) /\ UNCHANGED jobstore
           ELSE IF ~host.complete
           THEN proc' = next /\ UNCHANGED jobstore
           ELSE /\ jobstore' = body.jobs
                /\ proc' = [next EXCEPT
                              !.added = proc.added \cup {j.id : j \in body.jobs \ jobstore}]
    /\ UNCHANGED <<db_vars, conf, running, config, difftest>>

\* the one-shot jobs that are due have been handed to the thread pool: the
\* scheduler's thread is woken by add_job and submits a due job well within
\* the second the main thread sleeps
DueJobsDispatched == \A job \in jobstore : job.trigger /= "date"

\* lines 448-450: sleep(1) returns; the loop goes on in daemon mode, and
\* ends after its first pass otherwise, execute and main returning
Sleep ==
    /\ proc.pc = "sleep"
    /\ IF config.daemon
       THEN UNCHANGED proc
       ELSE /\ DueJobsDispatched
            /\ proc' = SysExit(proc, 0)
    /\ UNCHANGED <<db_vars, sched_vars, config, difftest>>

\* lines 451-453: KeyboardInterrupt is raised in the main thread while it
\* is in the loop
Interrupt ==
    /\ proc.pc = "sleep"
    /\ proc' = shutdown(proc)
    /\ UNCHANGED <<db_vars, sched_vars, config, difftest>>

\* scheduler.shutdown() returns, and execute and main with it
ShutdownReturns ==
    /\ proc.pc = "shutdown"
    /\ running = {}
    /\ proc' = SysExit(proc, 0)
    /\ UNCHANGED <<db_vars, sched_vars, config, difftest>>

\* the interpreter exits once the threads of the pool have finished the
\* jobs they run
ProcessExits ==
    /\ proc.pc = "exiting"
    /\ running = {}
    /\ proc' = [proc EXCEPT !.pc = "exited"]
    /\ UNCHANGED <<db_vars, sched_vars, config, difftest>>

\* the running scheduler of a live process hands a due job to the pool
ExecDispatch ==
    \E job \in jobstore :
        /\ proc.sched = "running"
        /\ proc.pc \in {"register", "sleep", "shutdown"}
        /\ Cardinality(OccurrencesOf(job.id)) < job.max_instances
        /\ LET n == CHOOSE k \in 1..job.max_instances :
                       \A o \in OccurrencesOf(job.id) : o.n /= k
           IN  running' = running \cup {Occurrence(job, n)}
        /\ jobstore' = IF job.trigger = "date" THEN jobstore \ {job} ELSE jobstore
        /\ UNCHANGED <<db_vars, conf, config, proc, difftest>>

\* a job function returns or raises: the executor logs an exception and
\* the job stays in the job store
JobReturns ==
    \E o \in running :
        /\ Ends(o)
        /\ UNCHANGED <<db_vars, conf, jobstore, config, proc, difftest>>

ExecNext ==
    \/ LoadDatabase
    \/ ExecuteStart
    \/ RegisterHost
    \/ Sleep
    \/ Interrupt
    \/ ShutdownReturns
    \/ ProcessExits
    \/ ExecDispatch
    \/ JobReturns

ExecSpec == ExecInit /\ [][ExecNext]_vars

(* ------------------------- diff_traceroutes alone --------------------- *)
\* hop lines of the raw traces compared: no reply printed at all, a probe
\* that timed out, an answering address, a second address, two replies from
\* different addresses, a timed-out probe followed by a reply
HopLines == { <<>>, <<"*">>, <<"h1">>, <<"h2">>, <<"h1", "h2">>, <<"*", "h1">> }

\* the raw traces of at most MaxHops hops
DiffTexts == {RawText(l) : l \in UNION {[1..k -> HopLines] : k \in 0..MaxHops}}

\* diff_traceroutes is about to be called on (tr1, tr2)
DiffInit ==
    /\ targets = {}
    /\ traceroutes = {}
    /\ next_id = 1
    /\ now = 0
    /\ last = NoCall
    /\ conf = NoConf
    /\ jobstore = {}
    /\ running = {}
    /\ config = NoConfig
    /\ proc = NoProc
    /\ difftest \in [pc : {"call"}, tr1 : DiffTexts, tr2 : DiffTexts, result : {{}}]

\* the call returns the list of differing indices
DiffCall ==
    /\ difftest.pc = "call"
    /\ difftest' = [difftest EXCEPT !.pc = "returned",
                                    !.result = diff_traceroutes(difftest.tr1, difftest.tr2)]
    /\ UNCHANGED <<targets, traceroutes, next_id, now, last, sched_vars, config, proc>>

DiffNext == DiffCall

DiffSpec == DiffInit /\ [][DiffNext]_vars

(* ============================ properties ============================== *)
\* the stored log of a target, and its most recent snapshot
Log(rows, name) == {r \in rows : r.target = name}
Newest(rows, name) ==
    CHOOSE r \in Log(rows, name) : \A x \in Log(rows, name) : x.id <= r.id
\* the probe of a call succeeded: exit status 0 and some output
ProbeOk(c) == c.res.exit_code = 0 /\ c.res.output.kind = "text"
\* this step is the handler call recorded in last' (the clock stands still)
UpdateStep == last'.op = "update" /\ now' = now
PruneStep == last'.op = "prune" /\ now' = now
\* snapshots of the pruned target older than now - days, before the prune
Eligible == {r \in Log(traceroutes, last'.name) : r.creation_date < now - last'.days}
Deleted == traceroutes \ traceroutes'

\* C1: an update whose probe succeeds appends only if the target had no
\* snapshot or the diff of (most recent snapshot, probe text) is non-empty;
\* with a most recent snapshot and an empty diff the log is unchanged.
C1_AppendOnlyOnChange ==
    [][ (UpdateStep /\ ProbeOk(last')) =>
          LET n == last'.name
              text == last'.res.output
              had == Log(traceroutes, n) /= {}
          IN  /\ traceroutes' /= traceroutes =>
                    (~had \/ diff_traceroutes(Newest(traceroutes, n).traceroute, text) /= {})
              /\ (had /\ diff_traceroutes(Newest(traceroutes, n).traceroute, text) = {})
                    => traceroutes' = traceroutes
              /\ traceroutes \subseteq traceroutes'
              /\ \A r \in traceroutes' \ traceroutes : r.target = n /\ r.traceroute = text
       ]_vars

\* an update with the same text as the stored one left the log as it was
C1_Witness ==
    /\ last.op = "update" /\ ProbeOk(last)
    /\ last.count_before = 1
    /\ Cardinality(Log(traceroutes, last.name)) = 1
    /\ diff_traceroutes(Newest(traceroutes, last.name).traceroute, last.res.output) = {}

\* C2: a prune never leaves fewer than keep snapshots when the target had
\* at least keep, and deletes nothing when it had at most keep.
C2_KeepFloor ==
    last.op = "prune" =>
        LET c == Cardinality(Log(traceroutes, last.name))
        IN  /\ last.count_before >= last.keep => c >= last.keep
            /\ last.count_before <= last.keep => c = last.count_before

\* a prune with keep = 1 took a target from two snapshots to one
C2_Witness ==
    /\ last.op = "prune" /\ last.keep = 1 /\ last.count_before = 2
    /\ Cardinality(Log(traceroutes, last.name)) = 1

\* C3: a prune deletes exactly the oldest min(total - keep, eligible)
\* snapshots among those older than now - days, so the keep most recent
\* snapshots survive.
C3_DeletesOldest ==
    [][ PruneStep =>
          LET n == last'.name
              total == Cardinality(Log(traceroutes, n))
              k == Min(Max(total - last'.keep, 0), Cardinality(Eligible))
          IN  /\ Deleted = {r \in Eligible :
                              Cardinality({x \in Eligible : x.id < r.id}) < k}
              /\ \A r \in Log(traceroutes, n) :
                    Cardinality({x \in Log(traceroutes, n) : x.id > r.id}) < last'.keep
                        => r \in traceroutes'
       ]_vars

\* C4: a prune never deletes a snapshot that is not older than now - days,
\* whatever the count and keep.
C4_NeverDeletesYoung ==
    [][ PruneStep =>
          \A r \in Deleted : r.target = last'.name /\ r.creation_date < now - last'.days
       ]_vars

\* a prune with keep = 0 deleted one of two snapshots: the other was too young
C4_Witness ==
    /\ last.op = "prune" /\ last.keep = 0 /\ last.days = 0 /\ last.count_before = 2
    /\ Cardinality(Log(traceroutes, last.name)) = 1

\* C5: an update whose probe fails leaves the storage as it was: no
\* snapshot appended, no Target created.
C5_FailedProbeNoChange ==
    [][ (UpdateStep /\ ~ProbeOk(last')) =>
          (traceroutes' = traceroutes /\ targets' = targets)
       ]_vars

\* C8: the second of two successive updates of a target with the same probe
\* output appends nothing, and a target that started empty holds one
\* snapshot after the two.
C8_UpdateIdempotent ==
    [][ ( /\ UpdateStep /\ ProbeOk(last')
          /\ last.op = "update" /\ last.name = last'.name /\ last.res = last'.res ) =>
          /\ traceroutes' = traceroutes
          /\ last.count_before = 0 => Cardinality(Log(traceroutes', last'.name)) = 1
       ]_vars

\* C9: with no stored snapshot and a successful probe, the update appends
\* exactly one snapshot, the probe's text, also when it has no hop.
C9_Bootstrap ==
    [][ (UpdateStep /\ ProbeOk(last') /\ Log(traceroutes, last'.name) = {}) =>
          /\ Cardinality(Log(traceroutes', last'.name)) = 1
          /\ \A r \in Log(traceroutes', last'.name) : r.traceroute = last'.res.output
          /\ traceroutes \subseteq traceroutes'
       ]_vars

\* the first sample of a target, a text without any hop, is stored
C9_Witness ==
    /\ last.op = "update" /\ ProbeOk(last) /\ last.count_before = 0
    /\ last.res.output = RawText(<<>>)
    /\ diff_traceroutes(RawText(<<>>), last.res.output) = {}
    /\ Cardinality(Log(traceroutes, last.name)) = 1

\* 150 snapshots of one target, 120 of them created at day 0 and 30 at day
\* 40; pruned at day 40 with days = 30 and keep = 100
ExampleRows == {Traceroute(i, "a", RawText(<<>>), IF i <= 120 THEN 0 ELSE 40) : i \in 1..150}
ExampleAfter ==
    RowsAfterDelete({[name |-> "a", address |-> Address("a")]}, ExampleRows, "a", 40, 30, 100)

\* C10: a prune deletes min(total - keep, number older than the threshold)
\* snapshots when total > keep and none otherwise; 150 snapshots with 120
\* old ones and keep = 100 lose exactly 50.
C10_DeleteCount ==
    /\ Cardinality(ExampleRows \ ExampleAfter) = 50
    /\ Cardinality(ExampleAfter) = 100
    /\ [][ PruneStep =>
             LET total == Cardinality(Log(traceroutes, last'.name))
             IN  /\ Cardinality(Deleted) =
                        IF total > last'.keep
                        THEN Min(total - last'.keep, Cardinality(Eligible))
                        ELSE 0
                 /\ traceroutes' \subseteq traceroutes
          ]_vars

\* a prune that could delete two (keep = 0) found one older than a day
C10_Witness ==
    /\ last.op = "prune" /\ last.keep = 0 /\ last.days = 1 /\ last.count_before = 2
    /\ Cardinality(Log(traceroutes, last.name)) = 1

\* C6: no other update of the same target appends between an update's
\* read of the most recent snapshot and that update's own append: while an
\* update job holds what it read, the target's log has no newer snapshot.
C6_AtomicReadAppend ==
    \A o \in running :
        (o.func = "update" /\ o.pc = "read") =>
            \A r \in Log(traceroutes, o.name) : r.id <= o.last_id

\* C7: at most one occurrence per job id is in flight; a trigger that comes
\* due while the job runs starts nothing.
C7_OneOccurrencePerJob ==
    \A o1 \in running, o2 \in running : o1.job = o2.job => o1 = o2

\* the recurring update job is running, past its lookup, when its trigger
\* comes due again
C7_Witness ==
    \E job \in jobstore :
        /\ job.trigger = "interval" /\ job.func = "update"
        /\ \E o \in running : o.job = job.id /\ o.pc = "read"
        /\ Cardinality(OccurrencesOf(job.id)) >= job.max_instances

\* C11: the storage access of one update invocation is one atomic scope: an
\* invocation in which a storage statement raises an operational failure
\* leaves tables Target and Traceroute as it found them, a Target row the
\* same invocation created included.
C11_FailedUpdateRollsBack ==
    [][(last'.op = "update_failed" /\ now' = now)
          => (targets' = targets /\ traceroutes' = traceroutes)]_vars

\* C16: the diff of a raw trace with itself is empty, whatever its hops:
\* answered, timed out, or printed without any reply.
C16_DiffSelfEmpty ==
    (difftest.pc = "returned" /\ difftest.tr1 = difftest.tr2) => difftest.result = {}

\* the number of hops of a raw trace, and the address of the first probe of
\* its hop at 0-based index i (NoneIp when the hop has no resolved address)
HopCount(tr) == Len(tr.lines)
FirstProbeAddress(tr, i) ==
    IF tr.lines[i + 1] = <<>> \/ tr.lines[i + 1][1] = "*"
    THEN NoneIp
    ELSE tr.lines[i + 1][1]

\* C17: diff_traceroutes(A, B) is exactly the set of the 0-based indices
\* below the larger hop count at which one side has no hop or the two hops'
\* first-probe addresses differ, an unresolved address being equal only to
\* another unresolved one.
C17_DiffIsHopwise ==
    difftest.pc = "returned" =>
        difftest.result =
            {i \in 0..(Max(HopCount(difftest.tr1), HopCount(difftest.tr2)) - 1) :
                \/ i >= HopCount(difftest.tr1)
                \/ i >= HopCount(difftest.tr2)
                \/ FirstProbeAddress(difftest.tr1, i) /= FirstProbeAddress(difftest.tr2, i)}

\* the recurring jobs of the job store
Recurring(jobs) == {job \in jobs : job.trigger = "interval"}
\* the names of the complete [HOST_*] sections of the configuration
CompleteNames == {config.hosts[k].name : k \in {n \in 1..Len(config.hosts) : config.hosts[n].complete}}
\* execute has run its loop over the hosts to the end
LoopDone == proc.i > Len(proc.hosts) /\ proc.i >= 1
\* the process has ended or is ending
Ended(p) == p.pc \in {"exiting", "exited"}

\* C12: a failure about one target leaves the recurring jobs registered and
\* the other targets served: a job that returns or raises removes no
\* recurring job, and in daemon mode, once the loop over the hosts has
\* begun, the process ends only through the interrupt that stops the
\* scheduler, whatever a host's pass of the loop raised.
C12_FailureIsolation ==
    [][ /\ (running' /= running /\ running' \subseteq running)
              => Recurring(jobstore) \subseteq jobstore'
        /\ (config.daemon /\ proc'.i >= 1 /\ Ended(proc'))
              => proc'.sched = "stopped"
      ]_vars

C14_RunOncePass ==
    (~config.daemon /\ proc.pc = "exited" /\ proc.sched = "running")
        => /\ \A name \in CompleteNames : ("startup-" \o name) \in proc.added
           /\ DueJobsDispatched

\* the jobs registered under a target's name
JobsNamed(name, func, trigger) ==
    {job \in jobstore : job.name = name /\ job.func = func /\ job.trigger = trigger}

\* C15: when the loop over the hosts is done, every complete host has had
\* its one-shot update job registered and holds exactly one recurring
\* update job, of period `interval`; it has had a one-shot prune job
\* registered and holds one recurring prune job of period one hour exactly
\* when retention is enabled, and no prune job at all otherwise.
C15_JobsPerHost ==
    (LoopDone /\ proc.pc \in {"sleep", "shutdown"}) =>
        \A name \in CompleteNames :
            /\ ("startup-" \o name) \in proc.added
            /\ Cardinality(JobsNamed(name, "update", "interval")) = 1
            /\ \A job \in JobsNamed(name, "update", "interval") : job.seconds = conf.interval
            /\ IF conf.delete_history_days /= NoRetention
               THEN /\ ("startup-housekeeping-" \o name) \in proc.added
                    /\ Cardinality(JobsNamed(name, "prune", "interval")) = 1
                    /\ \A job \in JobsNamed(name, "prune", "interval") :
                           job.seconds = HousekeepingSeconds
               ELSE /\ \A job \in jobstore : job.func /= "prune"
                    /\ \A o \in running : o.func /= "prune"

\* an option of the configuration is absent or is not an integer
Defaulted(opt) == opt.kind /= "int"

\* C18: an absent or non-integer interval, minimum_keep or
\* delete_history_days never ends the process with an uncaught exception;
\* execute goes on to the loop over the hosts with interval 3600,
\* minimum_keep 100 and retention disabled in its place.
C18_OptionDefaults ==
    (Defaulted(config.interval) \/ Defaulted(config.minimum_keep)
        \/ Defaulted(config.delete_history_days))
      => /\ proc.exit_code /= ExitUncaught
         /\ proc.i >= 1 =>
              /\ Defaulted(config.interval) => conf.interval = DefaultInterval
              /\ Defaulted(config.minimum_keep) => conf.minimum_keep = DefaultMinimumKeep
              /\ Defaulted(config.delete_history_days) =>
                    /\ conf.delete_history_days = NoRetention
                    /\ \A job \in jobstore : job.func /= "prune"

\* the smokeping file has as many host= lines as title= lines, or not
Mismatched(src) ==
    /\ src.path = "file"
    /\ Len(SelectSeq(src.lines, IsHostLine)) /= Len(SelectSeq(src.lines, IsTitleLine))

\* C19: a smokeping file whose host= and title= lines differ in number
\* gives no target at all: execute works on the [HOST_*] sections alone,
\* does not abort, and every complete section has its recurring update job
\* in the job store when the loop over the hosts is done.
C19_MismatchRejected ==
    Mismatched(config.smokeping) =>
        /\ read_smokeping_config(config.smokeping).hosts = <<>>
        /\ proc.i >= 1 => proc.hosts = config.hosts
        /\ proc.exit_code = 0
        /\ proc.pc \in {"sleep", "shutdown"} =>
              \A name \in CompleteNames : JobsNamed(name, "update", "interval") /= {}

\* three host= lines and two title= lines: both [HOST_*] sections are
\* scheduled and a one-shot update has been handed to the pool
C19_Witness ==
    /\ config.smokeping = Smokeping("file", <<"host", "host", "host", "title", "title">>)
    /\ proc.pc = "sleep"
    /\ Len(proc.hosts) = 2
    /\ \E o \in running : o.job = "startup-a"

\* C20: with no host to work on, or no database to work with, the process
\* ends with status 3 or 20 and never starts the scheduler nor registers a
\* job.
C20_FatalAtStartup ==
    (config.db /= "ok" \/ Len(config.hosts) = 0) =>
        /\ proc.sched = "none"
        /\ proc.added = {}
        /\ proc.pc /= "load_database" /\ proc.pc /= "execute" =>
              (Ended(proc) /\ proc.exit_code \in {ExitNoDatabase, ExitNoHosts})

\* C22: whatever the interleaving of the two prune jobs of a target, a
\* target that holds at least minimum_keep snapshots holds at least
\* minimum_keep snapshots after every step.
C22_KeepFloorUnderInterleaving ==
    [][\A name \in SchedHosts :
          Cardinality(Log(traceroutes, name)) >= conf.minimum_keep
            => Cardinality(Log(traceroutes', name)) >= conf.minimum_keep]_vars

\* the ids execute gives to the four jobs of a target, lines 432-442
JobIds(name) ==
    {"startup-" \o name, name, "startup-housekeeping-" \o name, "housekeeping-" \o name}

\* the name options of the [HOST_*] sections
ConfiguredNames == {config.hosts[k].name : k \in 1..Len(config.hosts)}

\* C23: targets of different names never share a job id, and when the loop
\* over the hosts is done every complete target owns the job registered
\* under its own name.
C23_JobIdsDistinct ==
    /\ \A n1 \in ConfiguredNames, n2 \in ConfiguredNames :
          n1 /= n2 => JobIds(n1) \cap JobIds(n2) = {}
    /\ (LoopDone /\ proc.pc \in {"sleep", "shutdown"}) =>
          \A name \in CompleteNames :
              \E job \in jobstore : job.id = name /\ job.name = name

\* r and s are neighbours in the stored log of their target
Adjacent(rows, r, s) ==
    /\ r.target = s.target
    /\ r.id < s.id
    /\ ~\E t \in rows : t.target = r.target /\ r.id < t.id /\ t.id < s.id

\* C21: with updates and prunes run one at a time, any two snapshots that
\* are neighbours in a target's stored log differ: the diff of their raw
\* texts is not empty.
C21_AdjacentDiffer ==
    \A r \in traceroutes, s \in traceroutes :
        Adjacent(traceroutes, r, s) => diff_traceroutes(r.traceroute, s.traceroute) /= {}

=============================================================================
